---- MODULE Spec2Model ----
(***************************************************************************)
(* A model of clytia (src/src/lib.rs): the live indicators                 *)
(* (static_background_spinner, dynamic_background_spinner, progress_bar),  *)
(* which run a task on the calling thread while a scoped render thread     *)
(* animates, the key-driven menus (options_menu, multichoice),             *)
(* and the line prompts parsed_input and validated_input.                  *)
(*                                                                         *)
(* Spec      : one invocation of a live indicator (two threads).           *)
(* SpecMenu  : one invocation of a menu (single thread, key events).       *)
(* SpecInput : one invocation of a line prompt (single thread, lines).     *)
(***************************************************************************)
EXTENDS Integers, Sequences, FiniteSets, TLC

VARIABLES
    \* ---- live indicators ----
    op,           \* which operation was invoked
    cols,         \* terminal column count reported by termion::terminal_size()
    shared,       \* state the caller's closures share: the task advances it,
                  \* text_func() / progress_func() read it
    should_stop,  \* the AtomicBool cancellation flag
    cpc,          \* position of the calling thread
    rpc,          \* position of the render thread
    index,        \* render thread local: index into SPINNER_SYMBOLS
    text,         \* render thread: what text_func() returned for the frame
                  \* being written
    progress,     \* local `progress` of whichever thread renders a bar
    complete,     \* render thread local `complete`
    bar_max_len,  \* local `bar_max_len` of whichever thread renders a bar
    out,          \* everything written to the output sink, in order
    task_ret,     \* what task() produced
    spinner,      \* what the render thread's closure produced
    closure,      \* what the scope closure produced
    ret,          \* what the call returned
    stale,        \* history: frames whose first write began with the flag set
    \* ---- menus ----
    menu,         \* which menu was invoked
    options,      \* the option sequence
    mpc,          \* position of the menu call
    highlighted,  \* `selected` of options_menu, `highlighted` of multichoice
    selected,     \* the HashSet `selected` of multichoice
    keys,         \* key events read so far
    raw,          \* whether the terminal is in raw mode
    mout,         \* frames written by the menu
    mret,         \* what the menu call returned
    \* ---- line prompts ----
    iop,          \* which prompt was invoked
    default,      \* the `default` argument of parsed_input
    ipc,          \* position of the prompt call
    reads,        \* what the input stream delivered to each read_line() so far
    closed,       \* whether a read has found the input stream at its end
    iout,         \* everything the prompt wrote, in order
    iret          \* what the prompt call returned

liveVars == <<text, op, cols, shared, should_stop, cpc, rpc, index, progress, complete,
              bar_max_len, out, task_ret, spinner, closure, ret, stale>>
menuVars == <<menu, options, mpc, highlighted, selected, keys, raw, mout, mret>>
inputVars == <<iop, default, ipc, reads, closed, iout, iret>>
vars == <<text, op, cols, shared, should_stop, cpc, rpc, index, progress, complete,
          bar_max_len, out, task_ret, spinner, closure, ret, stale,
          menu, options, mpc, highlighted, selected, keys, raw, mout, mret,
          iop, default, ipc, reads, closed, iout, iret>>

(***************************************************************************)
(* Bounds of the model and constants of the program.                       *)
(***************************************************************************)
\* Frames one render loop may write before the task has to finish.
MaxFrames == 9
\* Key events one menu invocation may read.
MaxKeys == 5
\* Longest option sequence.
MaxOptions == 3

\* SPINNER_SYMBOLS.len()
SpinnerLen == 8
\* the gutter of an animated bar: cols - 9
Gutter == 9
\* the gutter of the failure bar: cols - 10
FailGutter == 10
\* progress >= 100 is complete, progress > 100 is clamped to 100
Full == 100

Spinners == {"static_background_spinner", "dynamic_background_spinner"}
Ops == Spinners \cup {"progress_bar"}
\* Values the shared state takes: below, at and above 100.
SharedVals == {0, 40, 100, 150}
\* Terminal widths: narrower than both gutters, between them, wider (a bar
\* of 30 cells while animated, of 29 cells in the failure frame).
Cols == {8, 9, 39}
WideCols == CHOOSE c \in Cols : \A d \in Cols : d <= c
\* Payloads a task returns inside Ok(_) or Err(_).
Payloads == {1, 2}


(***************************************************************************)
(* Values.                                                                 *)
(***************************************************************************)
\* Result<R, E> of the task; "None" while it has produced nothing.
NoValue == [tag |-> "None", payload |-> 0]
TaskResult(tag, p) == [tag |-> tag, payload |-> p]
\* Result<Result<R, E>> of the call: Ok(inner), Err(Error::Io), or a panic
\* unwinding out of the call.
NoRet == [tag |-> "None", inner |-> NoValue]
\* Fault variant: the task's Err(_) is handed back as Ok(_).
RetOkForgetsTag(r) == [tag |-> "Ok", inner |-> [r EXCEPT !.tag = "Ok"]]
\* Ok(ret)
RetOk(r) == [tag |-> "Ok", inner |-> r]
RetIo == [tag |-> "Io", inner |-> NoValue]
RetPanic == [tag |-> "Panic", inner |-> NoValue]

\* One write to the sink.
Blank == [by |-> "", kind |-> "", glyph |-> "", idx |-> 0, color |-> "",
          text |-> 0, pct |-> 0, len |-> 0, fill |-> 0]

\* `text` of the static spinner is one fixed value (written 0); the dynamic
\* spinner evaluates text_func() at every write.
Text(o, s) == IF o = "dynamic_background_spinner" THEN s ELSE 0

\* write!(output_stream, "\r{} {}", SPINNER_SYMBOLS[index].blue(), text)
SpinnerFrame(o, i, s) ==
    [Blank EXCEPT !.by = "render", !.kind = "frame", !.glyph = "spin",
                  !.idx = i, !.color = "blue", !.text = Text(o, s)]

\* Fault variant: the index runs off the end of the cycle.
NextIndexNoWrap(i) == i + 1
\* index = (index + 1) % SPINNER_SYMBOLS.len()
NextIndex(i) == (i + 1) % SpinnerLen

\* match &ret { Ok(_) => check mark, green; Err(_) => cross, red }
\* Fault variant: the check mark whatever the outcome.
FinalGlyphAlwaysCheck(tag) == "check"
FinalGlyph(tag) == IF tag = "Ok" THEN "check" ELSE "cross"
FinalColor(tag) == IF tag = "Ok" THEN "green" ELSE "red"
FinalLine(o, tag, s) ==
    [Blank EXCEPT !.by = "caller", !.kind = "final", !.glyph = FinalGlyph(tag),
                  !.color = FinalColor(tag), !.text = Text(o, s)]

\* Fault variant: the value is shown as returned.
NoClamp(p) == p
\* if progress > 100 { progress = 100; }
Clamp(p) == IF p > Full THEN Full ELSE p
\* let complete = progress >= 100;
IsComplete(p) == p >= Full

\* ((bar_max_len as f64 / 100f64) * (progress as f64).round()) as usize,
\* computed as IEEE 754 binary64 does, on integers.  With q = l * p / 100:
\*  - l as f64 and p as f64 are exact; a = fl(l / 100) is l / 100 rounded to
\*    53 bits (nearest, ties to even), a = l / 100 * (1 + d), |d| <= 2^-53;
\*  - when 100 does not divide l * p, q is at least 1/100 away from every
\*    integer and the two roundings move the product by far less: the cast
\*    truncates to floor(q);
\*  - when 100 divides l * p, q is an integer m and the product a * p is
\*    m - (l / 100 - a) * p exactly; it rounds to a double below m, and the
\*    cast gives m - 1, exactly when a was rounded down and the loss times p
\*    exceeds half the gap between m and the double before it.
\* Pow2(k) = 2^k
RECURSIVE Pow2(_)
Pow2(k) == IF k <= 0 THEN 1 ELSE 2 * Pow2(k - 1)
\* 2^e mod m without leaving small integers
RECURSIVE Pow2Mod(_, _)
Pow2Mod(e, m) == IF e <= 0 THEN 1 % m ELSE (2 * Pow2Mod(e - 1, m)) % m
\* The binary exponent of n / d (n, d >= 1): the e with 2^e <= n / d < 2^(e+1).
RECURSIVE Exponent(_, _)
Exponent(n, d) ==
    IF n < d THEN Exponent(2 * n, d) - 1
    ELSE IF 2 * d <= n THEN Exponent(n, 2 * d) + 1
    ELSE 0
\* The 53-bit significand of binary64.
Significand == 53
\* What the division l / 100 loses when it is rounded to a double, scaled to
\* hundredths of the last bit kept: 0 when exact or rounded up.
DivisionLoss(l) ==
    LET shift == (Significand - 1) - Exponent(l, Full)
        n200 == ((l % (2 * Full)) * Pow2Mod(shift, 2 * Full)) % (2 * Full)
        rem == n200 % Full
        odd == n200 >= Full
        down == 2 * rem < Full \/ (2 * rem = Full /\ ~odd)
    IN IF down THEN rem ELSE 0
BarLen(l, p) ==
    LET m == (l * p) \div Full
        loss == (DivisionLoss(l) * p) \div Full
        top == IF Pow2(Exponent(m, 1)) = m THEN Exponent(m, 1) - 1 ELSE Exponent(m, 1)
        k == top - 1 - Exponent(l, Full)
    IN IF (l * p) % Full # 0 \/ m = 0 THEN m
       ELSE IF loss = 0 THEN m
       ELSE IF k >= 0 /\ loss <= Pow2(k) THEN m
       ELSE m - 1

\* The writes of one progress_bar tick.
ClearWrite(who) == [Blank EXCEPT !.by = who, !.kind = "clear"]
PromptWrite == [Blank EXCEPT !.by = "render", !.kind = "prompt"]
\* `fill` is the number of '=' that "=".repeat(..) writes before the head
\* glyph: bar_len of an unfinished bar, bar_max_len of a complete one.
BarWrite(p, c, l) ==
    [Blank EXCEPT !.by = "render", !.kind = "bar", !.color = "blue",
                  !.glyph = IF c THEN "=" ELSE ">", !.pct = p, !.len = l,
                  !.fill = IF c THEN l ELSE BarLen(l, p)]
\* The closing writes of progress_bar.
ClosingWrite(tag) ==
    [Blank EXCEPT !.by = "caller", !.kind = "final", !.glyph = FinalGlyph(tag),
                  !.color = FinalColor(tag)]
FailBarWrite(p, l) ==
    [Blank EXCEPT !.by = "caller", !.kind = "failbar", !.glyph = "cross",
                  !.color = "red", !.pct = p, !.len = l, !.fill = BarLen(l, p)]

\* Frames the render loop has written.
IsFrame(w) == w.by = "render" /\ w.kind \in {"frame", "bar"}
Frames(o) == SelectSeq(o, IsFrame)
NumFrames == Len(Frames(out))

\* Fault variant: the flag starts set.
ShouldStopInitSet == TRUE
\* let should_stop = AtomicBool::new(false);
ShouldStopInit == FALSE

(***************************************************************************)
(* The calling thread.                                                     *)
(***************************************************************************)
\* scope.spawn(..): the render thread starts.
Spawn ==
    /\ cpc = "spawn"
    /\ rpc' = IF op = "progress_bar" THEN "init" ELSE "check"
    /\ spinner' = "running"
    /\ cpc' = "task"
    /\ UNCHANGED menuVars
    /\ UNCHANGED inputVars
    /\ UNCHANGED <<text, op, cols, shared, should_stop, index, progress, complete,
                   bar_max_len, out, task_ret, closure, ret,
                   stale>>

\* let ret = task(): a plain call on the calling thread; nothing in it looks
\* at the flag or at the render thread.
TaskRuns(stop, sp) == TRUE

\* task() is running: it advances the state text_func / progress_func read.
TaskWork ==
    /\ cpc = "task"
    /\ TaskRuns(should_stop, spinner)
    /\ \E v \in SharedVals : v > shared /\ shared' = v
    /\ UNCHANGED menuVars
    /\ UNCHANGED inputVars
    /\ UNCHANGED <<text, op, cols, should_stop, cpc, rpc, index, progress, complete,
                   bar_max_len, out, task_ret, spinner, closure, ret,
                   stale>>

\* let ret = task();
TaskReturn ==
    /\ cpc = "task"
    /\ TaskRuns(should_stop, spinner)
    /\ \E tag \in {"Ok", "Err"}, p \in Payloads : task_ret' = TaskResult(tag, p)
    /\ cpc' = "store"
    /\ UNCHANGED menuVars
    /\ UNCHANGED inputVars
    /\ UNCHANGED <<text, op, cols, shared, should_stop, rpc, index, progress, complete,
                   bar_max_len, out, spinner, closure, ret,
                   stale>>

\* task() panics: the scope closure unwinds; the store is never reached.
TaskPanic ==
    /\ cpc = "task"
    /\ TaskRuns(should_stop, spinner)
    /\ task_ret' = TaskResult("Panic", 0)
    /\ closure' = "Panic"
    /\ cpc' = "scope_end"
    /\ UNCHANGED menuVars
    /\ UNCHANGED inputVars
    /\ UNCHANGED <<text, op, cols, shared, should_stop, rpc, index, progress, complete,
                   bar_max_len, out, spinner, ret,
                   stale>>

\* should_stop.store(true, SeqCst); progress_bar's closure then ends with
\* Ok(ret), the spinners go on to join.
Store ==
    /\ cpc = "store"
    /\ should_stop' = TRUE
    /\ IF op = "progress_bar"
       THEN closure' = "Ok" /\ cpc' = "scope_end"
       ELSE closure' = closure /\ cpc' = "join"
    /\ UNCHANGED menuVars
    /\ UNCHANGED inputVars
    /\ UNCHANGED <<text, op, cols, shared, rpc, index, progress, complete,
                   bar_max_len, out, task_ret, spinner, ret,
                   stale>>

\* spinner.join() blocks until the render thread has finished.
Joined(sp) == sp # "running"

\* Fault variant: the render thread's Result is dropped instead of `?`-ed.
JoinResultDropped(sp) == IF sp = "Panic" THEN "Panic" ELSE "Ok"
\* spinner.join().unwrap()?  : Ok(()) goes on to Ok(ret), Err(Io) leaves the
\* closure with that error, a panicked thread makes unwrap() panic.
JoinResult(sp) == IF sp = "Ok" THEN "Ok" ELSE sp

Join ==
    /\ cpc = "join"
    /\ Joined(spinner)
    /\ closure' = JoinResult(spinner)
    /\ cpc' = "scope_end"
    /\ UNCHANGED menuVars
    /\ UNCHANGED inputVars
    /\ UNCHANGED <<text, op, cols, shared, should_stop, rpc, index, progress, complete,
                   bar_max_len, out, task_ret, spinner, ret,
                   stale>>

\* scope(..).unwrap()?  : the scope resumes a panic of its closure, reports
\* the panic of a thread as Err (unwrap() then panics), and otherwise hands
\* back the closure's value, whose Err(Io) `?` returns.
ScopeOutcome(cl, sp) ==
    IF cl = "Panic" \/ sp = "Panic" THEN "Panic" ELSE cl

\* Fault variant: a detached thread, which nothing waits for.
Detached(sp) == TRUE
\* The scope ends only when every thread spawned in it has finished.
AllThreadsFinished(sp) == sp # "running"

ScopeEnd ==
    /\ cpc = "scope_end"
    /\ AllThreadsFinished(spinner)
    /\ LET o == ScopeOutcome(closure, spinner) IN
         \/ /\ o = "Ok"
            /\ cpc' = "final"
            /\ ret' = ret
         \/ /\ o = "Io"
            /\ cpc' = "returned"
            /\ ret' = RetIo
         \/ /\ o = "Panic"
            /\ cpc' = "panicked"
            /\ ret' = RetPanic
    /\ UNCHANGED menuVars
    /\ UNCHANGED inputVars
    /\ UNCHANGED <<text, op, cols, shared, should_stop, rpc, index, progress, complete,
                   bar_max_len, out, task_ret, spinner, closure,
                   stale>>

\* Spinners: writeln!(output_stream, "\r{}", final line)?
FinalWrite ==
    /\ cpc = "final"
    /\ op \in Spinners
    /\ \E ok \in BOOLEAN :
         IF ok
         THEN /\ out' = Append(out, FinalLine(op, task_ret.tag, shared))
              /\ cpc' = "final_flush"
              /\ ret' = ret
         ELSE /\ out' = out
              /\ cpc' = "returned"
              /\ ret' = RetIo
    /\ UNCHANGED menuVars
    /\ UNCHANGED inputVars
    /\ UNCHANGED <<text, op, cols, shared, should_stop, rpc, index, progress, complete,
                   bar_max_len, task_ret, spinner, closure,
                   stale>>

\* Spinners: output_stream.flush()?; Ok(ret)
FinalFlush ==
    /\ cpc = "final_flush"
    /\ \E ok \in BOOLEAN : ret' = IF ok THEN RetOk(task_ret) ELSE RetIo
    /\ cpc' = "returned"
    /\ UNCHANGED menuVars
    /\ UNCHANGED inputVars
    /\ UNCHANGED <<text, op, cols, shared, should_stop, rpc, index, progress, complete,
                   bar_max_len, out, task_ret, spinner, closure,
                   stale>>


\* let cols: usize = termion::terminal_size()?.0.into(); cols - gutter
\* usize subtraction: with cols < gutter a build with overflow checks (debug)
\* panics at the subtraction; a build without them (release) wraps to a
\* length just below 2^64 and goes on to build the bar.
Underflows(c, gutter) == c < gutter
BarMaxLen(c, gutter) == c - gutter

\* The builds of the crate: with and without overflow checks.
Builds == {"debug", "release"}
\* bar_len of a wrapped bar_max_len exceeds isize::MAX from this progress on.
HalfFull == 50
\* What the bar of a wrapped bar_max_len does in a release build.
\* An unfinished bar: bar_len = (bar_max_len / 100.0) * progress is 0 for
\* progress 0, so that " ".repeat(bar_max_len) panics ("capacity overflow");
\* for 0 < progress < 50 it is a length a String may have, "=".repeat(bar_len)
\* asks the allocator for it, the allocation fails and the process aborts;
\* from 50 on it exceeds isize::MAX and repeat panics.  A complete bar is
\* "=".repeat(bar_max_len): it panics.
WrappedBar(p, comp) ==
    IF ~comp /\ 0 < p /\ p < HalfFull THEN "Abort" ELSE "Panic"
\* The outcome of `cols - gutter` and the bar built from it when cols < gutter.
NarrowOutcome(build, p, comp) ==
    IF build = "debug" THEN "Panic" ELSE WrappedBar(p, comp)

\* progress_bar, Ok(_): writeln!(.. check mark, prompt.green())?; Ok(ret)
PBFinalOk ==
    /\ cpc = "final"
    /\ op = "progress_bar"
    /\ task_ret.tag = "Ok"
    /\ \E ok \in BOOLEAN :
         IF ok
         THEN /\ out' = Append(out, ClosingWrite("Ok"))
              /\ ret' = RetOk(task_ret)
         ELSE /\ out' = out
              /\ ret' = RetIo
    /\ cpc' = "returned"
    /\ UNCHANGED menuVars
    /\ UNCHANGED inputVars
    /\ UNCHANGED <<text, op, cols, shared, should_stop, rpc, index, progress, complete,
                   bar_max_len, task_ret, spinner, closure,
                   stale>>

\* progress_bar, Err(_): let mut progress = progress_func(); clamp
PBFailQuery ==
    /\ cpc = "final"
    /\ op = "progress_bar"
    /\ task_ret.tag = "Err"
    /\ progress' = Clamp(shared)
    /\ cpc' = "fail_head"
    /\ UNCHANGED menuVars
    /\ UNCHANGED inputVars
    /\ UNCHANGED <<text, op, cols, shared, should_stop, rpc, index, complete,
                   bar_max_len, out, task_ret, spinner, closure, ret,
                   stale>>

\* writeln!(.. cross, prompt.red())?
PBFailHead ==
    /\ cpc = "fail_head"
    /\ \E ok \in BOOLEAN :
         IF ok
         THEN /\ out' = Append(out, ClosingWrite("Err"))
              /\ cpc' = "fail_size"
              /\ ret' = ret
         ELSE /\ out' = out
              /\ cpc' = "returned"
              /\ ret' = RetIo
    /\ UNCHANGED menuVars
    /\ UNCHANGED inputVars
    /\ UNCHANGED <<text, op, cols, shared, should_stop, rpc, index, progress, complete,
                   bar_max_len, task_ret, spinner, closure,
                   stale>>

\* let cols = termion::terminal_size()?.0.into(); let bar_max_len = cols - 10;
\* On a narrow terminal the call unwinds, or the process aborts in repeat():
\* nothing returns, nothing unwinds and no destructor runs.
PBFailSize ==
    /\ cpc = "fail_size"
    /\ \E ok \in BOOLEAN :
         IF ~ok
         THEN /\ cpc' = "returned"
              /\ ret' = RetIo
              /\ bar_max_len' = bar_max_len
         ELSE IF Underflows(cols, FailGutter)
         THEN \E build \in Builds :
              /\ IF NarrowOutcome(build, progress, FALSE) = "Abort"
                 THEN cpc' = "aborted" /\ ret' = ret
                 ELSE cpc' = "panicked" /\ ret' = RetPanic
              /\ bar_max_len' = bar_max_len
         ELSE /\ cpc' = "fail_bar"
              /\ ret' = ret
              /\ bar_max_len' = BarMaxLen(cols, FailGutter)
    /\ UNCHANGED menuVars
    /\ UNCHANGED inputVars
    /\ UNCHANGED <<text, op, cols, shared, should_stop, rpc, index, progress, complete,
                   out, task_ret, spinner, closure,
                   stale>>

\* writeln!(.. "[{}cross{}| {:03}%]" ..)?; Ok(ret)
PBFailBar ==
    /\ cpc = "fail_bar"
    /\ \E ok \in BOOLEAN :
         IF ok
         THEN /\ out' = Append(out, FailBarWrite(progress, bar_max_len))
              /\ ret' = RetOk(task_ret)
         ELSE /\ out' = out
              /\ ret' = RetIo
    /\ cpc' = "returned"
    /\ UNCHANGED menuVars
    /\ UNCHANGED inputVars
    /\ UNCHANGED <<text, op, cols, shared, should_stop, rpc, index, progress, complete,
                   bar_max_len, task_ret, spinner, closure,
                   stale>>

\* impl Drop for Clytia: write!(self.output, "\r{}", cursor::Show).unwrap()
ShowWrite == [Blank EXCEPT !.by = "drop", !.kind = "show"]

\* What the panic of unwrap() in the destructor does.  After a return, or
\* when the owner caught the panic of the call and drops the value later, it
\* is one panic; when the value is dropped by the unwinding of the call's
\* own panic it is a second panic, and the process aborts.
DropFails(pc) ==
    IF pc = "panicked" THEN {"drop_panicked", "aborted"} ELSE {"drop_panicked"}

\* The Clytia value is dropped once the call is over (it returned, or a
\* panic unwinds through its owner): the cursor is shown again, and a failed
\* write panics in the destructor.  After an abort no destructor runs.
Drop ==
    /\ cpc \in {"returned", "panicked"}
    /\ \E ok \in BOOLEAN :
         IF ok
         THEN /\ out' = Append(out, ShowWrite)
              /\ cpc' = "dropped"
         ELSE /\ out' = out
              /\ cpc' \in DropFails(cpc)
    /\ UNCHANGED menuVars
    /\ UNCHANGED inputVars
    /\ UNCHANGED <<text, op, cols, shared, should_stop, rpc, index, progress, complete,
                   bar_max_len, task_ret, spinner, closure, ret,
                   stale>>

(***************************************************************************)
(* The render thread.                                                      *)
(***************************************************************************)
\* Fault variant: the loop never looks at the flag.
LoopIgnoresFlag(stop, comp) == FALSE
\* Fault variant: a complete bar also ends the loop.
LoopExitsOnComplete(stop, comp) == stop \/ comp
\* while !should_stop.load(SeqCst): the flag alone decides.
LoopExits(stop, comp) == stop

\* while !should_stop.load(SeqCst) { .. } Ok(())
RenderCheck ==
    /\ rpc = "check"
    /\ IF LoopExits(should_stop, complete)
       THEN /\ rpc' = "done"
            /\ spinner' = "Ok"
       ELSE /\ NumFrames < MaxFrames
            /\ rpc' = IF op = "progress_bar" THEN "query"
                      ELSE IF op = "dynamic_background_spinner" THEN "text"
                      ELSE "write"
            /\ spinner' = spinner
    /\ UNCHANGED menuVars
    /\ UNCHANGED inputVars
    /\ UNCHANGED <<text, op, cols, shared, should_stop, cpc, index, progress, complete,
                   bar_max_len, out, task_ret, closure, ret,
                   stale>>

\* The dynamic spinner evaluates the arguments of write! first: text_func()
\* reads the shared state, and the bytes are written afterwards, so the
\* calling thread may change the state, or set the flag, in between.
RenderText ==
    /\ rpc = "text"
    /\ text' = shared
    /\ rpc' = "write"
    /\ UNCHANGED menuVars
    /\ UNCHANGED inputVars
    /\ UNCHANGED <<op, cols, shared, should_stop, cpc, index, progress, complete,
                   bar_max_len, out, task_ret, spinner, closure, ret,
                   stale>>

\* Spinners: write!(output_stream, .. SPINNER_SYMBOLS[index] .. text)?
\* The dynamic spinner advances index right after the write.
RenderWrite ==
    /\ rpc = "write"
    /\ \E ok \in BOOLEAN :
         IF ok
         THEN /\ out' = Append(out, SpinnerFrame(op, index, text))
              /\ stale' = IF should_stop THEN stale + 1 ELSE stale
              /\ index' = IF op = "dynamic_background_spinner"
                          THEN NextIndex(index) ELSE index
              /\ rpc' = "flush"
              /\ spinner' = spinner
         ELSE /\ out' = out
              /\ stale' = stale
              /\ index' = index
              /\ rpc' = "done"
              /\ spinner' = "Io"
    /\ UNCHANGED menuVars
    /\ UNCHANGED inputVars
    /\ UNCHANGED <<text, op, cols, shared, should_stop, cpc, progress, complete,
                   bar_max_len, task_ret, closure, ret>>

\* output_stream.flush()?
RenderFlush ==
    /\ rpc = "flush"
    /\ \E ok \in BOOLEAN :
         IF ok
         THEN /\ rpc' = "sleep"
              /\ spinner' = spinner
         ELSE /\ rpc' = "done"
              /\ spinner' = "Io"
    /\ UNCHANGED menuVars
    /\ UNCHANGED inputVars
    /\ UNCHANGED <<text, op, cols, shared, should_stop, cpc, index, progress, complete,
                   bar_max_len, out, task_ret, closure, ret,
                   stale>>

\* std::thread::sleep(Duration::from_millis(50)): the frame stays on screen
\* while the calling thread runs; the static spinner advances index only
\* after the sleep, then the loop polls the flag again.
RenderSleep ==
    /\ rpc = "sleep"
    /\ index' = IF op = "static_background_spinner" THEN NextIndex(index) ELSE index
    /\ rpc' = "check"
    /\ UNCHANGED menuVars
    /\ UNCHANGED inputVars
    /\ UNCHANGED <<text, op, cols, shared, should_stop, cpc, progress, complete,
                   bar_max_len, out, task_ret, spinner, closure, ret,
                   stale>>

\* progress_bar: write!(output_stream, "\r")? before the loop
PBInit ==
    /\ rpc = "init"
    /\ \E ok \in BOOLEAN :
         IF ok
         THEN /\ out' = Append(out, [Blank EXCEPT !.by = "render", !.kind = "cr"])
              /\ rpc' = "check"
              /\ spinner' = spinner
         ELSE /\ out' = out
              /\ rpc' = "done"
              /\ spinner' = "Io"
    /\ UNCHANGED menuVars
    /\ UNCHANGED inputVars
    /\ UNCHANGED <<text, op, cols, shared, should_stop, cpc, index, progress, complete,
                   bar_max_len, task_ret, closure, ret,
                   stale>>

\* let mut progress = progress_func(); let complete = progress >= 100; clamp
PBQuery ==
    /\ rpc = "query"
    /\ progress' = Clamp(shared)
    /\ complete' = IsComplete(shared)
    /\ rpc' = "head"
    /\ UNCHANGED menuVars
    /\ UNCHANGED inputVars
    /\ UNCHANGED <<text, op, cols, shared, should_stop, cpc, index, bar_max_len, out,
                   task_ret, spinner, closure, ret,
                   stale>>

\* write!(output_stream, clear, up, clear, hide)?
PBHead ==
    /\ rpc = "head"
    /\ \E ok \in BOOLEAN :
         IF ok
         THEN /\ out' = Append(out, ClearWrite("render"))
              /\ stale' = IF should_stop THEN stale + 1 ELSE stale
              /\ rpc' = "prompt"
              /\ spinner' = spinner
         ELSE /\ out' = out
              /\ stale' = stale
              /\ rpc' = "done"
              /\ spinner' = "Io"
    /\ UNCHANGED menuVars
    /\ UNCHANGED inputVars
    /\ UNCHANGED <<text, op, cols, shared, should_stop, cpc, index, progress, complete,
                   bar_max_len, task_ret, closure, ret>>

\* writeln!(output_stream, "{}", prompt)?
PBPrompt ==
    /\ rpc = "prompt"
    /\ \E ok \in BOOLEAN :
         IF ok
         THEN /\ out' = Append(out, PromptWrite)
              /\ rpc' = "size"
              /\ spinner' = spinner
         ELSE /\ out' = out
              /\ rpc' = "done"
              /\ spinner' = "Io"
    /\ UNCHANGED menuVars
    /\ UNCHANGED inputVars
    /\ UNCHANGED <<text, op, cols, shared, should_stop, cpc, index, progress, complete,
                   bar_max_len, task_ret, closure, ret,
                   stale>>

\* let cols = termion::terminal_size()?.0.into(); let bar_max_len = cols - 9;
\* On a narrow terminal the render thread panics, or the allocation in
\* repeat() fails and the whole process aborts, the calling thread with it,
\* wherever it is (the task is cut short).
PBSize ==
    /\ rpc = "size"
    /\ \E ok \in BOOLEAN :
         IF ~ok
         THEN /\ rpc' = "done"
              /\ spinner' = "Io"
              /\ bar_max_len' = bar_max_len
              /\ cpc' = cpc
         ELSE IF Underflows(cols, Gutter)
         THEN \E build \in Builds :
              /\ rpc' = "done"
              /\ bar_max_len' = bar_max_len
              /\ IF NarrowOutcome(build, progress, complete) = "Abort"
                 THEN spinner' = "Abort" /\ cpc' = "aborted"
                 ELSE spinner' = "Panic" /\ cpc' = cpc
         ELSE /\ rpc' = "bar"
              /\ spinner' = spinner
              /\ bar_max_len' = BarMaxLen(cols, Gutter)
              /\ cpc' = cpc
    /\ UNCHANGED menuVars
    /\ UNCHANGED inputVars
    /\ UNCHANGED <<text, op, cols, shared, should_stop, index, progress, complete,
                   out, task_ret, closure, ret,
                   stale>>

\* write!(output_stream, "{}", bar)?
PBBar ==
    /\ rpc = "bar"
    /\ \E ok \in BOOLEAN :
         IF ok
         THEN /\ out' = Append(out, BarWrite(progress, complete, bar_max_len))
              /\ rpc' = "flush"
              /\ spinner' = spinner
         ELSE /\ out' = out
              /\ rpc' = "done"
              /\ spinner' = "Io"
    /\ UNCHANGED menuVars
    /\ UNCHANGED inputVars
    /\ UNCHANGED <<text, op, cols, shared, should_stop, cpc, index, progress, complete,
                   bar_max_len, task_ret, closure, ret,
                   stale>>

(***************************************************************************)
(* Spec: one invocation of a live indicator.                               *)
(***************************************************************************)
MenuIdle ==
    /\ menu = "none"
    /\ options = <<>>
    /\ mpc = "idle"
    /\ highlighted = 0
    /\ selected = {}
    /\ keys = <<>>
    /\ raw = FALSE
    /\ mout = <<>>
    /\ mret = [tag |-> "None", value |-> <<>>]

InputIdle ==
    /\ iop = "none"
    /\ default = [tag |-> "None", value |-> 0]
    /\ ipc = "idle"
    /\ reads = <<>>
    /\ closed = FALSE
    /\ iout = <<>>
    /\ iret = [tag |-> "None", value |-> 0, text |-> <<>>]

LiveInit ==
    /\ op \in Ops
    \* only progress_bar asks for the terminal's width
    /\ cols \in IF op = "progress_bar" THEN Cols ELSE {WideCols}
    /\ shared = 0
    /\ should_stop = ShouldStopInit
    /\ cpc = "spawn"
    /\ rpc = "idle"
    /\ index = 0
    /\ text = 0
    /\ progress = 0
    /\ complete = FALSE
    /\ bar_max_len = 0
    /\ out = <<>>
    /\ task_ret = NoValue
    /\ spinner = "none"
    /\ closure = "None"
    /\ ret = NoRet
    /\ stale = 0

Init == LiveInit /\ MenuIdle /\ InputIdle

CallerNext ==
    \/ Spawn \/ TaskWork \/ TaskReturn \/ TaskPanic \/ Store \/ Join \/ ScopeEnd
    \/ FinalWrite \/ FinalFlush
    \/ PBFinalOk \/ PBFailQuery \/ PBFailHead \/ PBFailSize \/ PBFailBar

RenderNext ==
    \/ RenderCheck \/ RenderText \/ RenderWrite \/ RenderFlush \/ RenderSleep
    \/ PBInit \/ PBQuery \/ PBHead \/ PBPrompt \/ PBSize \/ PBBar

Next == CallerNext \/ RenderNext \/ Drop

Spec == Init /\ [][Next]_vars

\* Both threads are scheduled by the operating system: neither is held back
\* forever while it has a step to take (the render thread sleeps 50 ms per
\* tick, the calling thread blocks only in the join).
SpecFair == Init /\ [][Next]_vars /\ WF_vars(CallerNext) /\ WF_vars(RenderNext)


(***************************************************************************)
(* The menus: options_menu and multichoice.                                *)
(***************************************************************************)
Menus == {"options_menu", "multichoice"}
AllOptions == <<"cats", "dogs", "rabbits", "both">>
\* What one step of input_stream.keys() yields: a key, Err(_), or the end.
Keys == {"Up", "Down", "Enter", "Space", "Other"}
KeyEvents == Keys \cup {"IoErr", "Eof"}

OptionsCount == Len(options)

MenuNone == [tag |-> "None", value |-> <<>>]
MenuOk(v) == [tag |-> "Ok", value |-> v]
MenuIo == [tag |-> "Io", value |-> <<>>]
MenuPanic == [tag |-> "Panic", value |-> <<>>]

\* Fault variant: Up stops at the first row instead of wrapping.
KeyUpNoWrap(h, n) == IF h = 0 THEN 0 ELSE h - 1
\* Key::Up => (selected + options_count - 1) % options_count
KeyUp(h, n) == (h + n - 1) % n
\* Fault variant: Down without the wrap.
KeyDownNoWrap(h, n) == h + 1
\* Key::Down => (selected + 1) % options_count
KeyDown(h, n) == (h + 1) % n
\* Fault variant: Space only ever selects.
ToggleInsertOnly(sel, h) == sel \cup {h}
\* Key::Char(' '): remove the highlighted index if present, insert it if not
Toggle(sel, h) == IF h \in sel THEN sel \ {h} ELSE sel \cup {h}

\* With options_count = 0 both arms panic: the remainder has a zero divisor
\* (and selected + 0 - 1 underflows first).
KeyPanics(k, n) == k \in {"Up", "Down"} /\ n = 0

\* One row of a frame, index i counted from 0 as in the code.
Row(m, opts, h, sel, i) ==
    [text |-> opts[i + 1],
     color |-> IF i = h THEN "blue" ELSE "",
     mark |-> IF m = "options_menu"
              THEN (IF i = h THEN "=>" ELSE "")
              ELSE (IF i \in sel THEN "[X]" ELSE "[ ]")]
\* One full drawing of the option list after erasing `erased` lines.
Frame(m, opts, h, sel, erased) ==
    [kind |-> "draw", erased |-> erased,
     rows |-> [j \in 1..Len(opts) |-> Row(m, opts, h, sel, j - 1)]]

\* Fault variant: the selected options are collected last to first.
RECURSIVE ReturnsReversed(_, _, _)
ReturnsReversed(opts, sel, i) ==
    IF i >= Len(opts) THEN <<>>
    ELSE ReturnsReversed(opts, sel, i + 1) \o (IF i \in sel THEN <<opts[i + 1]>> ELSE <<>>)

\* .filter(|(index, _)| selected.contains(index)).map(..).collect()
RECURSIVE Returns(_, _, _)
Returns(opts, sel, i) ==
    IF i >= Len(opts) THEN <<>>
    ELSE (IF i \in sel THEN <<opts[i + 1]>> ELSE <<>>) \o Returns(opts, sel, i + 1)

\* Fault variant: the first option is handed back whatever is highlighted.
PickedFirst(opts, h) == <<opts[1]>>
\* options.as_ref()[selected].clone()
Picked(opts, h) == <<opts[h + 1]>>

\* Fault variant: the terminal is left as it is.
NotRestored(r) == r
\* Drop of the RawTerminal guard: the prior (cooked) mode is back.
Restored(r) == FALSE

FinalRows(vals) ==
    [j \in 1..Len(vals) |->
        [text |-> vals[j], color |-> "green",
         mark |-> IF menu = "options_menu" THEN "=>" ELSE "[X]"]]

\* Writes of the first drawing: one per row, and multichoice hides the
\* cursor first.  With none, nothing can fail.
DrawWrites(m, n) == n + (IF m = "multichoice" THEN 1 ELSE 0)

\* output_stream.into_raw_mode()?
MenuAcquire ==
    /\ mpc = "start"
    /\ \E ok \in BOOLEAN :
         IF ok
         THEN /\ raw' = TRUE
              /\ mpc' = "draw"
              /\ mret' = mret
         ELSE /\ raw' = raw
              /\ mpc' = "returned"
              /\ mret' = MenuIo
    /\ UNCHANGED <<menu, options, highlighted, selected, keys, mout>>
    /\ UNCHANGED liveVars
    /\ UNCHANGED inputVars

\* The first drawing of the list, before any key is read.
MenuDraw ==
    /\ mpc = "draw"
    /\ \E ok \in BOOLEAN :
         IF ok \/ DrawWrites(menu, OptionsCount) = 0
         THEN /\ mout' = Append(mout, Frame(menu, options, highlighted, selected, 0))
              /\ mpc' = "keys"
              /\ mret' = mret
              /\ raw' = raw
         ELSE /\ mout' = mout
              /\ mpc' = "returned"
              /\ mret' = MenuIo
              /\ raw' = Restored(raw)
    /\ UNCHANGED <<menu, options, highlighted, selected, keys>>
    /\ UNCHANGED liveVars
    /\ UNCHANGED inputVars

\* for c in input_stream.keys() { match c? {..}; erase; redraw }
\* One iteration: the key read, the state change, the redraw.
MenuKey ==
    /\ mpc = "keys"
    /\ Len(keys) < MaxKeys
    /\ \E k \in KeyEvents, ok \in BOOLEAN :
         /\ keys' = Append(keys, k)
         /\ IF k = "IoErr"
            THEN /\ mpc' = "returned" /\ mret' = MenuIo /\ raw' = Restored(raw)
                 /\ UNCHANGED <<highlighted, selected, mout>>
            ELSE IF k \in {"Eof", "Enter"}
            THEN /\ mpc' = "final"
                 /\ UNCHANGED <<highlighted, selected, mout, mret, raw>>
            ELSE IF KeyPanics(k, OptionsCount)
            THEN /\ mpc' = "panicked" /\ mret' = MenuPanic /\ raw' = Restored(raw)
                 /\ UNCHANGED <<highlighted, selected, mout>>
            ELSE /\ highlighted' = IF k = "Up" THEN KeyUp(highlighted, OptionsCount)
                                   ELSE IF k = "Down" THEN KeyDown(highlighted, OptionsCount)
                                   ELSE highlighted
                 /\ selected' = IF k = "Space" /\ menu = "multichoice"
                                THEN Toggle(selected, highlighted)
                                ELSE selected
                 /\ IF ok
                    THEN /\ mout' = Append(mout, Frame(menu, options, highlighted',
                                                       selected', OptionsCount))
                         /\ UNCHANGED <<mpc, mret, raw>>
                    ELSE /\ mpc' = "returned" /\ mret' = MenuIo /\ raw' = Restored(raw)
                         /\ mout' = mout
    /\ UNCHANGED <<menu, options>>
    /\ UNCHANGED liveVars
    /\ UNCHANGED inputVars

\* options_menu after the loop: erase, writeln the chosen line in green,
\* Ok(options[selected].clone()).  options[selected] panics on an empty list.
MenuFinalOne ==
    /\ mpc = "final"
    /\ menu = "options_menu"
    /\ \E ok \in BOOLEAN :
         IF highlighted >= OptionsCount
         THEN /\ mpc' = "panicked" /\ mret' = MenuPanic /\ mout' = mout
         ELSE IF ok
         THEN /\ mpc' = "returned"
              /\ mret' = MenuOk(Picked(options, highlighted))
              /\ mout' = Append(mout, [kind |-> "final", erased |-> OptionsCount,
                                       rows |-> FinalRows(Picked(options, highlighted))])
         ELSE /\ mpc' = "returned" /\ mret' = MenuIo /\ mout' = mout
    /\ raw' = Restored(raw)
    /\ UNCHANGED <<menu, options, highlighted, selected, keys>>
    /\ UNCHANGED liveVars
    /\ UNCHANGED inputVars

\* multichoice after the loop: erase, collect the selected options in option
\* order, writeln each in green, Ok(returns).
MenuFinalMulti ==
    /\ mpc = "final"
    /\ menu = "multichoice"
    /\ \E ok \in BOOLEAN :
         IF ok
         THEN /\ mret' = MenuOk(Returns(options, selected, 0))
              /\ mout' = Append(mout, [kind |-> "final", erased |-> OptionsCount,
                                       rows |-> FinalRows(Returns(options, selected, 0))])
         ELSE /\ mret' = MenuIo /\ mout' = mout
    /\ mpc' = "returned"
    /\ raw' = Restored(raw)
    /\ UNCHANGED <<menu, options, highlighted, selected, keys>>
    /\ UNCHANGED liveVars
    /\ UNCHANGED inputVars

\* impl Drop for Clytia, after a menu: "\r" and cursor::Show.
MenuShowWrite == [kind |-> "show", erased |-> 0, rows |-> <<>>]

MenuDrop ==
    /\ mpc \in {"returned", "panicked"}
    /\ \E ok \in BOOLEAN :
         IF ok
         THEN /\ mout' = Append(mout, MenuShowWrite)
              /\ mpc' = "dropped"
         ELSE /\ mout' = mout
              /\ mpc' \in DropFails(mpc)
    /\ UNCHANGED <<menu, options, highlighted, selected, keys, raw, mret>>
    /\ UNCHANGED liveVars
    /\ UNCHANGED inputVars

LiveIdle ==
    /\ op = "none"
    /\ cols = WideCols
    /\ shared = 0
    /\ should_stop = FALSE
    /\ cpc = "idle"
    /\ rpc = "idle"
    /\ index = 0
    /\ text = 0
    /\ progress = 0
    /\ complete = FALSE
    /\ bar_max_len = 0
    /\ out = <<>>
    /\ task_ret = NoValue
    /\ spinner = "none"
    /\ closure = "None"
    /\ ret = NoRet
    /\ stale = 0

MenuInit ==
    /\ menu \in Menus
    /\ \E n \in 0..MaxOptions : options = SubSeq(AllOptions, 1, n)
    /\ mpc = "start"
    /\ highlighted = 0
    /\ selected = {}
    /\ keys = <<>>
    /\ raw = FALSE
    /\ mout = <<>>
    /\ mret = MenuNone

InitMenu == MenuInit /\ LiveIdle /\ InputIdle

NextMenu ==
    MenuAcquire \/ MenuDraw \/ MenuKey \/ MenuFinalOne \/ MenuFinalMulti \/ MenuDrop

SpecMenu == InitMenu /\ [][NextMenu]_vars

(***************************************************************************)
(* SpecInput: one invocation of parsed_input or validated_input.           *)
(* The calls are made as in examples/: T = usize and, for validated_input, *)
(* the predicate |v| *v >= 1 && *v <= 10.                                  *)
(***************************************************************************)
\* read_line() calls one invocation may make.
MaxReads == 3
\* |v| *v >= 1 && *v <= 10
Low == 1
High == 10

Prompts == {"parsed_input", "validated_input"}

\* default: Option<T>
NoDefault == [tag |-> "None", value |-> 0]
SomeDefault(v) == [tag |-> "Some", value |-> v]
Defaults == {NoDefault, SomeDefault(7)}

\* Lines the input stream may deliver (without their line end), as
\* sequences of characters: empty, blank, accepted, rejected, unparsable.
InputLines ==
    { <<>>, <<" ">>,
      <<"5">>, <<" ", "5", " ">>, <<"1", "0">>, <<"+", "5">>,
      <<"0">>, <<"1", "1">>,
      <<"x">>, <<" ", "x", " ">>, <<"5", "x">>, <<"-", "5">> }
Line(t) == [kind |-> "line", text |-> t]
\* A byte that makes read_line() give up the line (Ctrl-C, Ctrl-D, NUL).
Intr == [kind |-> "intr", text |-> <<>>]
\* The stream is at its end.
Eof == [kind |-> "eof", text |-> <<>>]
\* The read fails.
ReadFails == [kind |-> "ioerr", text |-> <<>>]
ReadEvents == {Line(t) : t \in InputLines} \cup {Intr, Eof, ReadFails}

\* io::Result<Option<String>>
ReadErr == [tag |-> "Err", text |-> <<>>]
NoLine == [tag |-> "None", text |-> <<>>]
SomeLine(t) == [tag |-> "Some", text |-> t]
\* input_stream.read_line(): what the call can return for an event of the
\* stream.  At the end of the stream the reader has no line to give: None,
\* or the empty line it collected.
ReadLine(ev) ==
    IF ev.kind = "ioerr" THEN {ReadErr}
    ELSE IF ev.kind = "intr" THEN {NoLine}
    ELSE IF ev.kind = "eof" THEN {NoLine, SomeLine(<<>>)}
    ELSE {SomeLine(ev.text)}

\* str::trim_start / str::trim_end on the characters used here
RECURSIVE TrimStart(_)
TrimStart(t) == IF t # <<>> /\ Head(t) = " " THEN TrimStart(Tail(t)) ELSE t
RECURSIVE TrimEnd(_)
TrimEnd(t) ==
    IF t # <<>> /\ t[Len(t)] = " " THEN TrimEnd(SubSeq(t, 1, Len(t) - 1)) ELSE t
\* n.trim().trim_end()
Trimmed(n) == TrimEnd(TrimEnd(TrimStart(n)))

\* trimmed.parse::<usize>(): an optional '+', then one or more decimal
\* digits; anything else is an error.
DigitChars == <<"0", "1", "2", "3", "4", "5", "6", "7", "8", "9">>
IsDigit(c) == \E i \in 1..Len(DigitChars) : DigitChars[i] = c
DigitOf(c) == (CHOOSE i \in 1..Len(DigitChars) : DigitChars[i] = c) - 1
Unsigned(t) == IF t # <<>> /\ Head(t) = "+" THEN Tail(t) ELSE t
Parses(t) == Unsigned(t) # <<>> /\ \A i \in 1..Len(Unsigned(t)) : IsDigit(Unsigned(t)[i])
RECURSIVE DigitsValue(_, _)
DigitsValue(t, acc) ==
    IF t = <<>> THEN acc
    ELSE DigitsValue(Tail(t), Len(DigitChars) * acc + DigitOf(Head(t)))
Parse(t) == DigitsValue(Unsigned(t), 0)

\* Fault variant: every parsed value is accepted.
ValidateAny(v) == TRUE
\* validate(&parsed)
Validate(v) == v >= Low /\ v <= High

\* The arm of `match input` a result of read_line() takes.
Arm(r) ==
    IF r.tag = "None" THEN "none"
    ELSE IF Trimmed(r.text) = <<>> THEN "empty"
    ELSE IF ~Parses(Trimmed(r.text)) THEN "parse_error"
    ELSE IF Validate(Parse(Trimmed(r.text))) THEN "accepted"
    ELSE "rejected"

\* The arms that end in `continue`.
Continues(arm) == arm \in {"none", "empty", "rejected"}

\* Result<T>
InputNone == [tag |-> "None", value |-> 0, text |-> <<>>]
InputOk(v) == [tag |-> "Ok", value |-> v, text |-> <<>>]
InputIo == [tag |-> "Io", value |-> 0, text |-> <<>>]
\* Error::ParseError(trimmed.to_string())
InputParseError(t) == [tag |-> "ParseError", value |-> 0, text |-> t]

\* What the prompt writes.
AskWrite == [kind |-> "prompt", color |-> "blue", echo |-> <<>>]
\* The two writes before `continue`: cursor up (and clear), then the prompt
\* in red, followed by the rejected line when there is one.
RetryWrites(arm, n) ==
    IF arm = "rejected"
    THEN << [kind |-> "up", color |-> "", echo |-> <<>>],
            [kind |-> "prompt", color |-> "red", echo |-> n] >>
    ELSE << [kind |-> "up_clear", color |-> "", echo |-> <<>>],
            [kind |-> "prompt", color |-> "red", echo |-> <<>>] >>

\* loop { write!(prompt)?; flush()?; ..  `failed` is the first of the two
\* calls to fail, 0 when none does.
InputPrompt ==
    /\ iop = "validated_input"
    /\ ipc = "prompt"
    /\ \E failed \in 0..2 :
         /\ iout' = IF failed = 1 THEN iout ELSE Append(iout, AskWrite)
         /\ IF failed = 0
            THEN ipc' = "read" /\ iret' = iret
            ELSE ipc' = "returned" /\ iret' = InputIo
    /\ UNCHANGED <<iop, default, reads, closed>>
    /\ UNCHANGED liveVars
    /\ UNCHANGED menuVars

\* let input = input_stream.read_line()?; match input { .. }: the read, the
\* arm taken and, before `continue`, its writes and flush (`failed` is the
\* first of these three calls to fail, 0 when none does).
InputRead ==
    /\ iop = "validated_input"
    /\ ipc = "read"
    /\ Len(reads) < MaxReads
    /\ \E ev \in (IF closed THEN {Eof} ELSE ReadEvents) :
         /\ reads' = Append(reads, ev)
         /\ closed' = (closed \/ ev.kind = "eof")
         /\ \E r \in ReadLine(ev), failed \in 0..3 :
              IF r.tag = "Err"
              THEN ipc' = "returned" /\ iret' = InputIo /\ iout' = iout
              ELSE IF Continues(Arm(r))
              THEN /\ iout' = iout \o SubSeq(RetryWrites(Arm(r), r.text), 1,
                                             IF failed = 0 THEN 2 ELSE failed - 1)
                   /\ IF failed = 0
                      THEN ipc' = "prompt" /\ iret' = iret
                      ELSE ipc' = "returned" /\ iret' = InputIo
              ELSE IF Arm(r) = "parse_error"
              THEN /\ ipc' = "returned"
                   /\ iret' = InputParseError(Trimmed(r.text))
                   /\ iout' = iout
              ELSE /\ ipc' = "returned"
                   /\ iret' = InputOk(Parse(Trimmed(r.text)))
                   /\ iout' = iout
    /\ UNCHANGED <<iop, default>>
    /\ UNCHANGED liveVars
    /\ UNCHANGED menuVars

\* Error::NonOptionalInput
InputRequired == [tag |-> "NonOptionalInput", value |-> 0, text |-> <<>>]
\* Fault variant: the default is never used.
AlwaysRequired(d) == InputRequired
\* match default { Some(v) => Ok(v), None => Err(Error::NonOptionalInput) }
OrDefault(d) == IF d.tag = "Some" THEN InputOk(d.value) ELSE InputRequired

\* let ret = match input { None / Some(n) if empty / Some(n) }? of
\* parsed_input, for a line read_line() returned.
ParsedResult(r, d) ==
    IF r.tag = "None" THEN OrDefault(d)
    ELSE IF Trimmed(r.text) = <<>> THEN OrDefault(d)
    ELSE IF Parses(Trimmed(r.text)) THEN InputOk(Parse(Trimmed(r.text)))
    ELSE InputParseError(Trimmed(r.text))

\* What parsed_input writes: the prompt, with "(default: d)" when there is one.
ParsedAskWrite(d) ==
    [kind |-> IF d.tag = "Some" THEN "prompt_default" ELSE "prompt",
     color |-> "blue", echo |-> <<>>]

\* parsed_input: write!(prompt)?; output_stream.flush()?  `failed` is the
\* first of the two calls to fail, 0 when none does.
ParsedPrompt ==
    /\ iop = "parsed_input"
    /\ ipc = "prompt"
    /\ \E failed \in 0..2 :
         /\ iout' = IF failed = 1 THEN iout ELSE Append(iout, ParsedAskWrite(default))
         /\ IF failed = 0
            THEN ipc' = "read" /\ iret' = iret
            ELSE ipc' = "returned" /\ iret' = InputIo
    /\ UNCHANGED <<iop, default, reads, closed>>
    /\ UNCHANGED liveVars
    /\ UNCHANGED menuVars

\* parsed_input: let input = input_stream.read_line()?; match input {..}?;
\* Ok(ret)
ParsedRead ==
    /\ iop = "parsed_input"
    /\ ipc = "read"
    /\ \E ev \in ReadEvents :
         /\ reads' = Append(reads, ev)
         /\ closed' = (closed \/ ev.kind = "eof")
         /\ \E r \in ReadLine(ev) :
              iret' = IF r.tag = "Err" THEN InputIo ELSE ParsedResult(r, default)
    /\ ipc' = "returned"
    /\ UNCHANGED <<iop, default, iout>>
    /\ UNCHANGED liveVars
    /\ UNCHANGED menuVars

\* impl Drop for Clytia, after a prompt: "\r" and cursor::Show.
InputShowWrite == [kind |-> "show", color |-> "", echo |-> <<>>]

InputDrop ==
    /\ ipc = "returned"
    /\ \E ok \in BOOLEAN :
         IF ok
         THEN /\ iout' = Append(iout, InputShowWrite)
              /\ ipc' = "dropped"
         ELSE /\ iout' = iout
              /\ ipc' = "drop_panicked"
    /\ UNCHANGED <<iop, default, reads, closed, iret>>
    /\ UNCHANGED liveVars
    /\ UNCHANGED menuVars

InputInit ==
    /\ iop \in Prompts
    /\ default \in IF iop = "parsed_input" THEN Defaults ELSE {NoDefault}
    /\ ipc = "prompt"
    /\ reads = <<>>
    /\ closed = FALSE
    /\ iout = <<>>
    /\ iret = InputNone

InitInput == InputInit /\ LiveIdle /\ MenuIdle

NextInput == InputPrompt \/ InputRead \/ ParsedPrompt \/ ParsedRead \/ InputDrop

SpecInput == InitInput /\ [][NextInput]_vars



(***************************************************************************)
(* Properties of the live indicators (checked under Spec).                 *)
(***************************************************************************)
CallEnded == cpc \in {"returned", "panicked"}
RenderRunning == rpc \notin {"idle", "done"}
TaskCompleted == task_ret.tag \in {"Ok", "Err"}
LastWrite(o) == o[Len(o)]
\* The writes of the call itself: all but the destructor's.
ByCall(w) == w.by # "drop"
CallWrites(o) == SelectSeq(o, ByCall)

\* C1: in all three live indicators, for either task outcome, the render
\* thread has terminated before the call returns (or unwinds): no state has
\* the call ended while the render thread is still running.
C1_RenderJoinedBeforeReturn ==
    CallEnded => /\ rpc = "done"
                 /\ spinner \in {"Ok", "Io", "Panic"}

\* A progress_bar call (which never joins explicitly) that returned after a
\* failing task, having animated at least one frame.
C1_Witness ==
    /\ op = "progress_bar"
    /\ cpc = "returned"
    /\ task_ret.tag = "Err"
    /\ NumFrames >= 1
    /\ rpc = "done"

\* C2: the cancellation flag starts false, only the calling thread writes it,
\* once, after the task has finished, to true; it is never reset and the
\* render thread never changes it; so flag = true implies the task completed.
C2_FlagWriteOnce ==
    /\ should_stop = FALSE
    /\ [](should_stop => TaskCompleted)
    /\ [][should_stop => should_stop']_vars
    /\ [][should_stop' # should_stop =>
            /\ cpc = "store" /\ cpc' # "store"
            /\ TaskCompleted
            /\ rpc' = rpc]_vars
    /\ [][rpc' # rpc => should_stop' = should_stop]_vars

\* The flag is set while the render thread has not yet polled it.
C2_Witness ==
    /\ should_stop
    /\ rpc = "flush"
    /\ task_ret.tag = "Err"

\* C3: in the spinners, once a write or flush of the render loop has failed
\* no further frame is written, and the call returns Err(Error::Io), after
\* the render thread has terminated, whether the task returned Ok or Err.
C3_SpinnerIoError ==
    /\ [](op \in Spinners /\ spinner = "Io" =>
            /\ rpc = "done"
            /\ cpc = "returned" => (ret = RetIo /\ TaskCompleted))
    /\ [][(op \in Spinners /\ spinner = "Io") => (Frames(out') = Frames(out))]_vars

\* A spinner whose render loop failed after some frames, task Ok, returned.
C3_Witness ==
    /\ op \in Spinners
    /\ spinner = "Io"
    /\ NumFrames >= 2
    /\ task_ret.tag = "Ok"
    /\ cpc = "returned"
    /\ ret = RetIo


\* C4: in progress_bar, if a write, a flush or the terminal-width query of
\* the render loop fails, the call returns Err(Error::Io), for either task
\* outcome, as the spinners do.
C4_ProgressIoErrorSurfaced ==
    (op = "progress_bar" /\ spinner = "Io" /\ cpc = "returned") => ret = RetIo

\* C5: whenever a live indicator returns and no I/O operation failed, it
\* returns Ok(r) with r the very value the task returned (tag and payload);
\* for either outcome the flag was set and the render thread has terminated.
C5_TaskResultUntouched ==
    cpc = "returned" =>
        /\ TaskCompleted
        /\ should_stop
        /\ rpc = "done"
        /\ ret.tag \in {"Ok", "Io"}
        /\ (spinner # "Io" /\ ret # RetIo) =>
              /\ ret.tag = "Ok"
              /\ ret.inner.tag = task_ret.tag
              /\ ret.inner.payload = task_ret.payload

\* A call that returned the task's Err(2) inside Ok(_), no I/O failure.
C5_Witness ==
    /\ cpc = "returned"
    /\ spinner = "Ok"
    /\ task_ret = TaskResult("Err", 2)
    /\ ret.tag = "Ok"
    /\ ret.inner = task_ret

\* The writes of a spinner's sink so far are well formed up to position n:
\* frame j (from 0) shows glyph j mod 8 in blue and was written by the render
\* thread; only the last write may be the final line.
SpinnerFramesOk(o) ==
    \A j \in 1..Len(o) :
        \/ /\ o[j].kind = "frame"
           /\ o[j].by = "render"
           /\ o[j].glyph = "spin"
           /\ o[j].idx = (j - 1) % SpinnerLen
        \/ /\ o[j].kind = "final"
           /\ o[j].by = "caller"
           /\ j = Len(o)

\* C6: the output of a spinner is a sequence of frames, the j-th showing
\* glyph j mod 8, followed (when no I/O fails) by exactly one final line,
\* written after the render thread has terminated: check mark in green iff
\* the task returned Ok, cross in red iff it returned Err; no frame follows.
C6_SpinnerOutput ==
    /\ [](op \in Spinners =>
            /\ SpinnerFramesOk(CallWrites(out))
            /\ (cpc = "returned" /\ ret.tag = "Ok") =>
                  /\ Len(out) >= 1
                  /\ LastWrite(out).kind = "final"
                  /\ (task_ret.tag = "Ok") <=>
                        (LastWrite(out).glyph = "check" /\ LastWrite(out).color = "green")
                  /\ (task_ret.tag = "Err") <=>
                        (LastWrite(out).glyph = "cross" /\ LastWrite(out).color = "red"))
    /\ [][(op \in Spinners /\ out' # out /\ LastWrite(out').kind = "final")
            => (rpc = "done" /\ spinner = "Ok")]_vars

\* A spinner that wrote more frames than the cycle has glyphs (the ninth
\* frame shows glyph 0 again) and closed with the cross after an Err.
C6_Witness ==
    /\ op = "static_background_spinner"
    /\ cpc = "returned"
    /\ ret.tag = "Ok"
    /\ task_ret.tag = "Err"
    /\ Len(out) = SpinnerLen + 2
    /\ out[SpinnerLen + 1].idx = 0
    /\ LastWrite(out).glyph = "cross"

\* C7: the sink is never written by two threads at once: the render thread
\* writes only while it runs, the calling thread writes only after the render
\* thread has terminated, and never while the task is running.
C7_SinkExclusive ==
    [][out' # out =>
         /\ out' = Append(out, LastWrite(out'))
         /\ LastWrite(out').by = "render" => (RenderRunning /\ cpc' = cpc)
         /\ LastWrite(out').by = "caller" =>
              (rpc = "done" /\ rpc' = rpc /\ TaskCompleted
                 /\ cpc \notin {"spawn", "task", "store", "join", "scope_end"})]_vars

\* The calling thread has written its closing line after frames of the
\* render thread, in a progress_bar.
C7_Witness ==
    /\ op = "progress_bar"
    /\ Len(out) >= 2
    /\ LastWrite(out).by = "caller"
    /\ \E j \in 1..Len(out) : out[j].by = "render" /\ out[j].kind = "bar"


(***************************************************************************)
(* Properties of the menus (checked under SpecMenu).                       *)
(***************************************************************************)
\* Every key read so far is k.
AllKeys(k) == \A j \in 1..Len(keys) : keys[j] = k
LastKey == keys[Len(keys)]

\* C8: with n >= 1 options and highlighted starting at 0, k Down events
\* leave highlighted = k mod n and k Up events leave
\* highlighted = (n - (k mod n)) mod n; one Up from 0 wraps to n - 1 and one
\* Down from n - 1 wraps to 0.
C8_Navigation ==
    /\ [](OptionsCount >= 1 =>
            /\ AllKeys("Down") => highlighted = Len(keys) % OptionsCount
            /\ AllKeys("Up") =>
                 highlighted = (OptionsCount - (Len(keys) % OptionsCount)) % OptionsCount)
    /\ [][(OptionsCount >= 1 /\ keys' # keys /\ LastKey' = "Up" /\ highlighted = 0)
            => highlighted' = OptionsCount - 1]_vars
    /\ [][(OptionsCount >= 1 /\ keys' # keys /\ LastKey' = "Down"
             /\ highlighted = OptionsCount - 1)
            => highlighted' = 0]_vars

\* Four Down events on three options: past the end and round to row 1.
C8_WitnessDown ==
    /\ OptionsCount = 3
    /\ Len(keys) = 4
    /\ AllKeys("Down")
    /\ highlighted = 1
    /\ mpc = "keys"

\* C9: a menu called with no options returns an explicit invalid-option-set
\* error for every key sequence, and never reaches a remainder by zero, an
\* unsigned underflow or an out-of-range index.
C9_EmptyRejected ==
    OptionsCount = 0 =>
        /\ mpc # "panicked"
        /\ (mpc = "returned" /\ mret.tag # "Io") => mret.tag = "InvalidOptionSet"

\* C10: with n >= 1, in every state 0 <= highlighted < n, and in multichoice
\* the selected set is a subset of 0..n-1; the option sequence is never
\* changed by the operation.
C10_MenuStateValid ==
    /\ [](OptionsCount >= 1 =>
            /\ highlighted \in 0..(OptionsCount - 1)
            /\ selected \subseteq 0..(OptionsCount - 1)
            /\ menu = "options_menu" => selected = {})
    /\ [][options' = options]_vars

\* multichoice on three options, the last row highlighted after a wrap
\* upwards and two rows selected.
C10_Witness ==
    /\ menu = "multichoice"
    /\ OptionsCount = 3
    /\ highlighted = 2
    /\ selected = {0, 2}
    /\ keys[1] = "Space"
    /\ keys[2] = "Up"
    /\ mpc = "returned"
    /\ mret.tag = "Ok"

\* The key history replayed without the model's own key handlers: the number
\* of k events among the first j keys, and the row a cursor started at 0
\* stands on after them.
CountKey(k, j) == Cardinality({i \in 1..j : keys[i] = k})
CursorAfter(j, n) == (CountKey("Down", j) + n * j - CountKey("Up", j)) % n
\* The rows on which Space was pressed an odd number of times.
OddToggled(n) ==
    {r \in 0..(n - 1) :
        Cardinality({j \in 1..Len(keys) :
                        keys[j] = "Space" /\ CursorAfter(j - 1, n) = r}) % 2 = 1}

\* C11: in options_menu with n >= 1, an Enter key event ends the key loop and
\* the value returned is the option at the row highlighted when Enter was
\* read; no key is read after Enter, so later keys cannot change the result.
C11_EnterReturnsHighlighted ==
    /\ []((menu = "options_menu" /\ OptionsCount >= 1 /\ mpc = "returned"
              /\ mret.tag = "Ok")
            => mret.value = <<options[CursorAfter(Len(keys) - 1, OptionsCount) + 1]>>)
    /\ [][(keys' # keys /\ keys'[Len(keys')] = "Enter")
            => (mpc' = "final" /\ highlighted' = highlighted)]_vars
    /\ [][(mpc \in {"final", "returned"})
            => (keys' = keys /\ highlighted' = highlighted)]_vars

\* cats / dogs / both, Down then Enter: dogs.
C11_Witness ==
    /\ menu = "options_menu"
    /\ options = <<"cats", "dogs", "rabbits">>
    /\ keys = <<"Down", "Enter">>
    /\ mpc = "returned"
    /\ mret = MenuOk(<<"dogs">>)

\* C12: multichoice returns exactly the options whose index is in selected,
\* each once, in increasing index order, whatever the order of the toggles.
C12_ResultInOptionOrder ==
    (menu = "multichoice" /\ mpc = "returned" /\ mret.tag = "Ok") =>
        /\ Len(mret.value) = Cardinality(selected \cap (0..(OptionsCount - 1)))
        /\ \E f \in [1..Len(mret.value) -> selected] :
              /\ \A a \in 1..Len(mret.value) : mret.value[a] = options[f[a] + 1]
              /\ \A a, b \in 1..Len(mret.value) : a < b => f[a] < f[b]

\* Row 2 toggled first, then row 0: the result is still cats, rabbits.
C12_Witness ==
    /\ menu = "multichoice"
    /\ options = <<"cats", "dogs", "rabbits">>
    /\ keys = <<"Up", "Space", "Down", "Space", "Enter">>
    /\ mpc = "returned"
    /\ mret = MenuOk(<<"cats", "rabbits">>)

\* C13: in multichoice, Space flips the membership of the highlighted row:
\* the selected set is always the set of rows on which Space was pressed an
\* odd number of times, so two Spaces on a row restore the set; with no
\* Space at all the result is empty.
C13_SpaceToggles ==
    (menu = "multichoice" /\ OptionsCount >= 1 /\ mpc # "start") =>
        /\ mret.tag # "Panic" => selected = OddToggled(OptionsCount)
        /\ (mpc = "returned" /\ mret.tag = "Ok"
              /\ \A j \in 1..Len(keys) : keys[j] # "Space") => mret.value = <<>>

\* Space on row 0, away and back, Space again: nothing is selected and the
\* confirmed result is empty.
C13_Witness ==
    /\ menu = "multichoice"
    /\ OptionsCount = 3
    /\ keys = <<"Space", "Down", "Up", "Space", "Enter">>
    /\ selected = {}
    /\ mpc = "returned"
    /\ mret = MenuOk(<<>>)

\* C14: a menu leaves its key loop only on Enter or on an I/O error; when
\* the key stream ends without Enter the call does not return a selection
\* as if the user had confirmed it.
C14_OnlyEnterConfirms ==
    (mpc = "returned" /\ mret.tag = "Ok") => (Len(keys) > 0 /\ LastKey = "Enter")

\* C15: the raw-mode session is held from its acquisition until the call
\* ends; on every way out (Enter, end of keys, failed key read, failed
\* write, unwinding) the terminal is back in its prior mode; a failed
\* acquisition returns an error without having changed the mode.
C15_RawModeScoped ==
    /\ [](mpc \in {"draw", "keys", "final"} => raw)
    /\ [](mpc \in {"start", "returned", "panicked", "dropped", "drop_panicked",
                    "aborted"} => ~raw)
    /\ [][(mpc = "start" /\ mpc' = "returned")
            => (raw' = raw /\ mret' = MenuIo /\ mout' = mout)]_vars

\* A write fails after keys were handled in raw mode: the call has returned
\* the error and the terminal is cooked again.
C15_Witness ==
    /\ mpc = "returned"
    /\ mret = MenuIo
    /\ Len(keys) >= 2
    /\ LastKey \in {"Up", "Down", "Space"}
    /\ Len(mout) >= 2
    /\ ~raw

\* The render thread's normal way out of its loop.
RenderLoopExit == RenderCheck /\ rpc' = "done"

\* C17 as stated: once the progress function has returned a value >= 100
\* the render loop of progress_bar can terminate on its own, i.e. with the
\* task still running and the flag still false the way out of the loop is
\* open to the render thread.
C17_LoopCanEndOnComplete ==
    (op = "progress_bar" /\ rpc = "check" /\ complete /\ cpc = "task" /\ ~should_stop)
        => ENABLED RenderLoopExit

\* C17, amended: the render loop of progress_bar ends normally only once the
\* cancellation flag is set; a progress value >= 100 only selects the full
\* bar, and while the flag is false every pass of the loop check starts
\* another frame.
C17_LoopEndsOnFlagOnly ==
    /\ []((op = "progress_bar" /\ rpc = "done" /\ spinner = "Ok") => should_stop)
    /\ [][(op = "progress_bar" /\ rpc = "check" /\ ~should_stop /\ rpc' # rpc)
            => rpc' = "query"]_vars

\* Two full bars drawn and a third one under way, the task still running
\* and the flag still false.
C17_Witness ==
    /\ op = "progress_bar"
    /\ cpc = "task"
    /\ ~should_stop
    /\ rpc = "query"
    /\ Cardinality({i \in 1..Len(out) : out[i].kind = "bar" /\ out[i].glyph = "="
                                           /\ out[i].pct = Full}) >= 2

\* The bars progress_bar has written: animated frames and the failure frame.
IsBar(w) == w.kind \in {"bar", "failbar"}
GutterOf(w) == IF w.kind = "bar" THEN Gutter ELSE FailGutter

\* C16: every bar progress_bar renders, animated or failure frame, shows the
\* percentage min(p, 100) of a progress value p the function returned, over
\* L = columns - gutter cells, with floor(L * min(p, 100) / 100) of them
\* filled; a value above 100 gives the frame of 100: an animated bar at 100%
\* is the complete one.
C16_BarGeometry ==
    \A i \in 1..Len(out) : IsBar(out[i]) =>
        /\ out[i].pct \in {IF v > Full THEN Full ELSE v : v \in {u \in SharedVals : u <= shared}}
        /\ out[i].len = cols - GutterOf(out[i])
        /\ out[i].fill = (out[i].len * out[i].pct) \div Full
        /\ (out[i].kind = "bar" /\ out[i].pct = Full) => out[i].glyph = "="


(***************************************************************************)
(* Properties of validated_input (checked under SpecInput).                *)
(***************************************************************************)
\* The prompt call is over: it returned, and the value may have been dropped.
InputOver == ipc \in {"returned", "dropped", "drop_panicked"}

LastRead == reads[Len(reads)]
\* The last read delivered a line with something on it.
LastReadIsText ==
    Len(reads) > 0 /\ LastRead.kind = "line" /\ Trimmed(LastRead.text) # <<>>
Unparsable(t) == ~Parses(Trimmed(t))
Rejected(t) ==
    Parses(Trimmed(t)) /\ Parse(Trimmed(t)) \notin Low..High

\* C18: validated_input never returns Ok(v) for a value the predicate
\* rejects, whatever lines came before: an Ok result is the parsed value of
\* the last line read and lies in 1..10.
C18_OkImpliesPredicate ==
    (iop = "validated_input" /\ ipc = "returned" /\ iret.tag = "Ok") =>
        /\ iret.value \in Low..High
        /\ LastReadIsText
        /\ ~Unparsable(LastRead.text)
        /\ iret.value = Parse(Trimmed(LastRead.text))

\* An empty line, then a rejected one, then " 5 ": Ok(5).
C18_Witness ==
    /\ iop = "validated_input"
    /\ reads = <<Line(<<>>), Line(<<"1", "1">>), Line(<<" ", "5", " ">>)>>
    /\ ipc = "returned"
    /\ iret = InputOk(5)

\* C19: when the input stream is exhausted before a line satisfied the
\* predicate, validated_input ends with an error: once a read has found the
\* stream at its end the call has returned, and not with Ok; it does not go
\* back to prompting.
C19_ExhaustedInputEndsCall ==
    (iop = "validated_input" /\ closed) => (InputOver /\ iret.tag # "Ok")

\* C20 as stated: an unparsable line and a parsable but rejected line are
\* both answered by prompting again; neither makes the call return an error
\* of its own (only a failing write can end the call there).
C20_BothReprompt ==
    (iop = "validated_input" /\ LastReadIsText
        /\ (Unparsable(LastRead.text) \/ Rejected(LastRead.text)))
      => (InputOver => iret.tag = "Io")


\* The last read delivered no text: an absent line, the end of the stream,
\* an empty or a blank line.
LastReadIsBlank ==
    Len(reads) > 0 /\ LastRead.kind # "ioerr" /\ Trimmed(LastRead.text) = <<>>

\* C21: parsed_input reads at most one line and never asks again.  Without
\* a default an empty, blank or absent line gives Error::NonOptionalInput;
\* with a default it gives Ok(default); a non-empty line that does not parse
\* gives ParseError with the trimmed text, default or not.
C21_ParsedInputOneShot ==
    /\ [](iop = "parsed_input" => Len(reads) <= 1)
    /\ []((iop = "parsed_input" /\ Len(reads) = 1) => InputOver)
    /\ []((iop = "parsed_input" /\ LastReadIsBlank) =>
            iret = IF default = NoDefault THEN InputRequired
                   ELSE InputOk(default.value))
    /\ []((iop = "parsed_input" /\ LastReadIsText /\ Unparsable(LastRead.text)) =>
            iret = InputParseError(Trimmed(LastRead.text)))
    /\ [][(iop = "parsed_input" /\ ipc = "read") => Len(iout') = 1 /\ iout' = iout]_vars

\* A blank line answered with the default.
C21_Witness ==
    /\ iop = "parsed_input"
    /\ default = SomeDefault(7)
    /\ reads = <<Line(<<" ">>)>>
    /\ ipc = "returned"
    /\ iret = InputOk(7)


\* C22: the animation outlives the task by at most one tick: at most one
\* frame is begun after the calling thread has set the flag (by the
\* iteration whose poll came before the set), and the render thread's next
\* poll of the flag takes it out of its loop.
C22_StaleBoundedByOneTick ==
    /\ [](stale <= 1)
    /\ [][(should_stop /\ rpc = "check" /\ rpc' # rpc) => (rpc' = "done")]_vars
    /\ [][(stale' # stale) => (should_stop /\ rpc \in {"write", "head"})]_vars

\* The flag was set between a poll and the write that followed it: one
\* frame more was written, then the loop ended and the call returned.
C22_Witness ==
    /\ op = "static_background_spinner"
    /\ stale = 1
    /\ rpc = "done"
    /\ spinner = "Ok"
    /\ cpc = "returned"
    /\ NumFrames >= 2


\* A step that reads the key k.
ReadsKey(k) == keys' # keys /\ keys'[Len(keys')] = k
\* Keys the menu acts on.
ActedOn(m) == IF m = "multichoice" THEN {"Up", "Down", "Enter", "Space"}
              ELSE {"Up", "Down", "Enter"}

\* C23: frame conditions of the menus.  A key the menu does not act on
\* (Space included in options_menu) changes neither highlighted nor
\* selected; Up and Down leave selected as it is; Space in multichoice
\* leaves highlighted as it is and flips the membership of the highlighted
\* row and of no other.
C23_MenuFrameConditions ==
    /\ [][(\E k \in Keys \ ActedOn(menu) : ReadsKey(k))
            => (highlighted' = highlighted /\ selected' = selected)]_vars
    /\ [][(ReadsKey("Up") \/ ReadsKey("Down")) => (selected' = selected)]_vars
    /\ [][(menu = "multichoice" /\ ReadsKey("Space"))
            => (/\ highlighted' = highlighted
                /\ (selected' \ selected) \cup (selected \ selected') = {highlighted})]_vars
    /\ [](menu = "options_menu" => selected = {})

\* multichoice: Space on row 0, an ignored key, Down, Space on row 1.
C23_Witness ==
    /\ menu = "multichoice"
    /\ OptionsCount = 3
    /\ keys = <<"Space", "Other", "Down", "Space">>
    /\ highlighted = 1
    /\ selected = {0, 1}

\* options_menu: Space is ignored, the cursor stays where Down put it.
C23_WitnessSpaceIgnored ==
    /\ menu = "options_menu"
    /\ OptionsCount = 3
    /\ keys = <<"Down", "Space">>
    /\ highlighted = 1
    /\ mpc = "keys"


\* The rows of frame f styled as highlighted.
HighlightedRows(f) == {j \in 1..Len(f.rows) : f.rows[j].color = "blue"}
\* Frame f shows the cursor on row h and the marks of the set sel.
Shows(f, h, sel) ==
    \A j \in 1..Len(f.rows) :
        /\ f.rows[j].color = "blue" <=> j - 1 = h
        /\ menu = "options_menu" => (f.rows[j].mark = "=>" <=> j - 1 = h)
        /\ menu = "multichoice" =>
              f.rows[j].mark = (IF j - 1 \in sel THEN "[X]" ELSE "[ ]")

\* C24: every frame a menu draws has exactly n rows in option order, with
\* exactly one row styled as highlighted; the frame on screen while the
\* menu waits for a key shows the current highlighted row and, in
\* multichoice, [X] on exactly the selected rows; the first frame erases
\* nothing and every redraw first erases exactly n lines.
C24_FramesReflectState ==
    \A i \in 1..Len(mout) : mout[i].kind = "draw" =>
        /\ Len(mout[i].rows) = OptionsCount
        /\ \A j \in 1..Len(mout[i].rows) : mout[i].rows[j].text = options[j]
        /\ Cardinality(HighlightedRows(mout[i])) = 1
        /\ mout[i].erased = (IF i = 1 THEN 0 ELSE OptionsCount)
        /\ (i = Len(mout) /\ mpc = "keys") => Shows(mout[i], highlighted, selected)


\* progress_bar has returned what the task produced: every closing write
\* succeeded.
PBClosed(tag) ==
    /\ op = "progress_bar"
    /\ cpc = "returned"
    /\ task_ret.tag = tag
    /\ ret = RetOk(task_ret)
\* What the calling thread wrote.
CallerWrites == {i \in 1..Len(out) : out[i].by = "caller"}

\* C25 as stated: after Ok the closing frame has the full bar in green with
\* the check glyph; after Err it has the label in red and a red bar with the
\* cross glyph inline.
C25_ClosingFrameWithBar ==
    /\ PBClosed("Ok") =>
          \E i, j \in CallerWrites :
              /\ out[i].glyph = "check"
              /\ out[j].kind \in {"bar", "failbar"}
              /\ out[j].color = "green"
              /\ out[j].fill = out[j].len
    /\ PBClosed("Err") =>
          \E i, j \in CallerWrites :
              /\ out[i].kind = "final" /\ out[i].color = "red"
              /\ out[j].kind = "failbar" /\ out[j].color = "red"
              /\ out[j].glyph = "cross"

\* C25, amended: after Ok the closing frame clears the bar and the label
\* and writes the check glyph with the label in green, and no bar; after Err
\* it writes the cross glyph with the label in red, then a red bar with the
\* cross glyph inline after the filled cells, over columns - 10 cells.
C25_ClosingFrame ==
    /\ PBClosed("Ok") =>
          /\ Cardinality(CallerWrites) = 1
          /\ LastWrite(out).by = "caller"
          /\ LastWrite(out).kind = "final"
          /\ LastWrite(out).glyph = "check"
          /\ LastWrite(out).color = "green"
    /\ PBClosed("Err") =>
          /\ Cardinality(CallerWrites) = 2
          /\ CallerWrites = {Len(out) - 1, Len(out)}
          /\ out[Len(out) - 1].kind = "final"
          /\ out[Len(out) - 1].glyph = "cross"
          /\ out[Len(out) - 1].color = "red"
          /\ LastWrite(out).kind = "failbar"
          /\ LastWrite(out).glyph = "cross"
          /\ LastWrite(out).color = "red"
          /\ LastWrite(out).len = cols - FailGutter
          /\ LastWrite(out).fill = BarLen(LastWrite(out).len, LastWrite(out).pct)

\* The task returned Ok after a full bar was animated: the closing frame is
\* the green check line alone.
C25_Witness ==
    /\ PBClosed("Ok")
    /\ \E i \in 1..Len(out) : out[i].kind = "bar" /\ out[i].glyph = "="
    /\ LastWrite(out).glyph = "check"


\* The calling thread is past its call of progress_func().
PastFailQuery == cpc \in {"fail_head", "fail_size", "fail_bar", "returned", "panicked"}
\* The animated bars written so far.
AnimatedBars == {i \in 1..Len(out) : out[i].kind = "bar"}

\* C26: in progress_bar, after Err the calling thread calls progress_func()
\* exactly once more, after the render thread has terminated, and the
\* failure frame shows that value clamped to 100 (which may differ from the
\* last animated frame); after Ok the calling thread never calls it.
C26_FailureRequery ==
    /\ [][(op = "progress_bar" /\ cpc = "final" /\ task_ret.tag = "Err" /\ cpc' # cpc)
            => PBFailQuery]_vars
    /\ [][PBFailQuery => (/\ ~RenderRunning
                          /\ task_ret.tag = "Err"
                          /\ progress' = (IF shared > Full THEN Full ELSE shared))]_vars
    /\ [][PastFailQuery => (~PBFailQuery /\ cpc' # "final" /\ shared' = shared
                            /\ progress' = progress)]_vars
    /\ [][(op = "progress_bar" /\ task_ret.tag = "Ok") => ~PBFailQuery]_vars
    /\ [][(op = "progress_bar" /\ task_ret.tag = "Ok" /\ ~RenderRunning /\ rpc # "idle")
            => progress' = progress]_vars
    /\ [](\A i \in 1..Len(out) : out[i].kind = "failbar" =>
            out[i].pct = (IF shared > Full THEN Full ELSE shared))

\* The last animated frame showed 40%, the task then moved the progress to
\* 150 and failed: the failure frame shows 100%.
C26_Witness ==
    /\ op = "progress_bar"
    /\ cpc = "returned"
    /\ task_ret.tag = "Err"
    /\ shared = 150
    /\ Len(out) > 0
    /\ LastWrite(out).kind = "failbar"
    /\ LastWrite(out).pct = Full
    /\ AnimatedBars # {}
    /\ \A i \in AnimatedBars : out[i].pct = 40


\* task() has ended, by returning or by panicking.
TaskEnded == task_ret.tag \in {"Ok", "Err", "Panic"}

\* C27: the task runs exactly once, on the calling thread, and to its end:
\* the call is entered into task() once and never again, only the calling
\* thread's task steps change what the task produces, a render thread that
\* fails or stops changes nothing of the task, the task can always go on
\* whatever the render thread and the flag are, and the call ends only
\* after the task has.
C27_TaskRunsOnceToCompletion ==
    /\ [](CallEnded => TaskEnded)
    /\ [](cpc = "task" => (~TaskEnded /\ ENABLED TaskReturn))
    /\ [][(cpc' = "task" /\ cpc # "task") => (cpc = "spawn" /\ ~TaskEnded)]_vars
    /\ [][TaskEnded => (task_ret' = task_ret /\ shared' = shared /\ cpc' # "task")]_vars
    /\ [][(task_ret' # task_ret \/ shared' # shared)
            => (cpc = "task" /\ rpc' = rpc /\ spinner' = spinner)]_vars
    /\ [][(spinner' # spinner /\ cpc = "task") => (cpc' = cpc /\ task_ret' = task_ret)]_vars


\* Some write, flush or terminal query has failed.
WriteFailed == spinner = "Io" \/ ret = RetIo
\* The render thread saw the flag and left its loop; the call returned.
EndedInOrder ==
    /\ rpc = "done" /\ spinner = "Ok" /\ should_stop
    /\ cpc \in {"returned", "dropped", "drop_panicked"} /\ ret.tag = "Ok"

\* C28: under fair scheduling of the two threads, once the task has
\* returned (Ok or Err), unless a write fails, the render thread eventually
\* sees the flag and leaves its loop and the call eventually returns.
C28_EventuallyReturns ==
    [](TaskCompleted => <>(WriteFailed \/ EndedInOrder))


\* The calling thread waits at the end of the scope for its render thread.
WaitsForRender == cpc \in {"join", "scope_end"} /\ RenderRunning

\* C29: when the task panics the render thread still stops and the call
\* still ends by propagating the panic: the calling thread is never left
\* waiting for a render thread whose flag is not set (and, the store being
\* behind the panic, never will be).
C29_PanicStillStopsRender ==
    (task_ret.tag = "Panic" /\ WaitsForRender) => should_stop

\* C30: no unsigned subtraction of progress_bar underflows, whatever the
\* terminal width and the progress value: columns - 9 in the animated
\* frames and columns - 10 in the failure frame are >= 0, so neither thread
\* panics or aborts on them, and the padding bar_max_len - filled of every bar is >= 0.
C30_NoUnderflow ==
    op = "progress_bar" =>
        /\ spinner \notin {"Panic", "Abort"}
        /\ task_ret.tag # "Panic" => (ret # RetPanic /\ cpc # "aborted")
        /\ rpc = "bar" => (cols - Gutter >= 0 /\ bar_max_len = cols - Gutter)
        /\ cpc = "fail_bar" => (cols - FailGutter >= 0 /\ bar_max_len = cols - FailGutter)
        /\ \A i \in 1..Len(out) : IsBar(out[i]) => out[i].len - out[i].fill >= 0

====
